---- MODULE Spec2Model ----
(***************************************************************************)
(* A model of the data-curation scripts of chains-project/bump:            *)
(*   scripts/add-licenses.py      (license annotator)                      *)
(*   scripts/fix-github-links.py  (compare-link fixer)                     *)
(*   scripts/extract-errors.py    (pre-labelling of build logs)            *)
(*                                                                         *)
(* Python strings are sequences of tokens.  The tokens that matter to the  *)
(* code ("/", "?", "#", ":", " ", the double quote, the backslash) are     *)
(* single characters; every other token stands for a run of ordinary       *)
(* characters (letters, digits, dots, dashes).                             *)
(***************************************************************************)
EXTENDS Integers, Sequences, FiniteSets, TLC

VARIABLES
    sUrl, sOut, sPc,                         \* get_repo_name_from_url on one URL
    cache,                                   \* the lru_cache of get_license_info
    results, netCalls, last, lStatus,        \* the lookups of one run
    file, file0, written, mapping, answers,  \* add-licenses.py on one record file
    runNo, aStatus, search,
    tUrl, tServer, tOut, tPc,                \* get_tags on one repository
    xFile, xFile0, xMapping, xServer, xGets, xPc,   \* fix-github-links.py on one file
    gLog, gLicense, gData, gPc               \* extract-errors.py on one log

slugVars == <<sUrl, sOut, sPc>>
licVars == <<results, netCalls, last, lStatus>>
annVars == <<file, file0, written, mapping, answers, runNo, aStatus, search>>
tagVars == <<tUrl, tServer, tOut, tPc>>
fixVars == <<xFile, xFile0, xMapping, xServer, xGets, xPc>>
logVars == <<gLog, gLicense, gData, gPc>>
vars == <<slugVars, cache, licVars, annVars, tagVars, fixVars, logVars>>

(***************************************************************************)
(* Python values                                                           *)
(***************************************************************************)
\* Python's None (JSON null)
None == <<"<None>">>
\* a key that is not in a dict
Absent == <<"<absent>">>
\* the double quote and the backslash
Q == "\""
BS == "\\"

\* bool(v) of a string or None
Truthy(v) == v # None /\ v # <<>>

\* dict.get(key, default)
Get(v, default) == IF v = Absent THEN default ELSE v

(***************************************************************************)
(* str methods                                                             *)
(***************************************************************************)
RECURSIVE LStrip(_, _)
LStrip(s, ch) == IF s # <<>> /\ Head(s) = ch THEN LStrip(Tail(s), ch) ELSE s

RECURSIVE RStrip(_, _)
RStrip(s, ch) ==
    IF s # <<>> /\ s[Len(s)] = ch THEN RStrip(SubSeq(s, 1, Len(s) - 1), ch) ELSE s

\* s.strip(ch)
Strip(s, ch) == RStrip(LStrip(s, ch), ch)

\* index of the first ch in s, 0 when there is none
RECURSIVE FindFrom(_, _, _)
FindFrom(s, chs, i) ==
    IF i > Len(s) THEN 0
    ELSE IF s[i] \in chs THEN i
    ELSE FindFrom(s, chs, i + 1)

\* s.split(ch): the pieces between the separators, empty pieces included
RECURSIVE Split(_, _)
Split(s, ch) ==
    LET i == FindFrom(s, {ch}, 1) IN
    IF i = 0 THEN <<s>>
    ELSE <<SubSeq(s, 1, i - 1)>> \o Split(SubSeq(s, i + 1, Len(s)), ch)

\* ch.join(parts)
RECURSIVE Join(_, _)
Join(parts, ch) ==
    IF parts = <<>> THEN <<>>
    ELSE IF Len(parts) = 1 THEN parts[1]
    ELSE parts[1] \o <<ch>> \o Join(Tail(parts), ch)

\* s.startswith(p)
StartsWith(s, p) == Len(s) >= Len(p) /\ SubSeq(s, 1, Len(p)) = p

\* sub in s
Contains(s, sub) ==
    \E i \in 1..(Len(s) - Len(sub) + 1) : SubSeq(s, i, i + Len(sub) - 1) = sub

\* s.replace(old, new): left to right, non-overlapping
RECURSIVE Replace(_, _, _)
Replace(s, old, new) ==
    IF s = <<>> THEN <<>>
    ELSE IF StartsWith(s, old) THEN new \o Replace(SubSeq(s, Len(old) + 1, Len(s)), old, new)
    ELSE <<Head(s)>> \o Replace(Tail(s), old, new)

(***************************************************************************)
(* urllib.parse.urlparse(url).path                                         *)
(***************************************************************************)
\* tokens that cannot be part of a URL scheme
Delims == {"/", "?", "#", ":", " ", Q, BS}

\* the URL with its scheme ("https", ":") removed, when it has one
DropScheme(url) ==
    LET i == FindFrom(url, {":"}, 1) IN
    IF i > 1 /\ \A k \in 1..(i - 1) : url[k] \notin Delims
    THEN SubSeq(url, i + 1, Len(url))
    ELSE url

\* the URL with "//netloc" removed, when it has one
DropNetloc(url) ==
    IF StartsWith(url, <<"/", "/">>)
    THEN LET d == FindFrom(url, {"/", "?", "#"}, 3) IN
         IF d = 0 THEN <<>> ELSE SubSeq(url, d, Len(url))
    ELSE url

\* what is left before the first "#" and "?"
DropTail(url) ==
    LET d == FindFrom(url, {"?", "#"}, 1) IN
    IF d = 0 THEN url ELSE SubSeq(url, 1, d - 1)

urlparse_path(url) == DropTail(DropNetloc(DropScheme(url)))

(***************************************************************************)
(* add-licenses.py: get_repo_name_from_url                                 *)
(***************************************************************************)
get_repo_name_from_url(url) ==
    LET path_parts == Split(Strip(urlparse_path(url), "/"), "/") IN
    IF Len(path_parts) >= 2
    THEN Join(SubSeq(path_parts, 1, 2), "/")
    ELSE None

(***************************************************************************)
(* add-licenses.py: get_license_info                                       *)
(***************************************************************************)
LICENSE_NOT_FOUND == <<"No license found">>
REPO_NOT_FOUND == <<"Repository not found">>
MAX_RETRIES == 3

\* One answer of the metadata endpoint: the HTTP status and, for a 200, the
\* "license" member of the body ("nokey": no such member, "null": null,
\* "obj": an object) and that object's "spdx_id" (Absent, None or a string).
Answer(status, license, spdx) == [status |-> status, license |-> license, spdx |-> spdx]
A401 == Answer(401, "nokey", Absent)
A404 == Answer(404, "nokey", Absent)
ANoKey == Answer(200, "nokey", Absent)
ANull == Answer(200, "null", Absent)
ANoId == Answer(200, "obj", Absent)
ANullId == Answer(200, "obj", None)
AEmptyId == Answer(200, "obj", <<>>)
AMit == Answer(200, "obj", <<"MIT">>)
AApache == Answer(200, "obj", <<"Apache-2.0">>)

\* what a call ends with: a returned value or a raised exception, and the
\* number of requests it sent
Return(value, calls) == [kind |-> "return", value |-> value, calls |-> calls]
Raise(exc, calls) == [kind |-> exc, value |-> None, calls |-> calls]

\* line 32: time.sleep(RETRY_DELAY); the module never imports time
time_sleep(calls) == Raise("NameError", calls)

\* the loop "for attempt in range(MAX_RETRIES)" from iteration `attempt` on;
\* script[attempt + 1] is the answer to the request of that iteration
RECURSIVE license_loop(_, _)
license_loop(script, attempt) ==
    IF attempt >= MAX_RETRIES
    THEN Return(LICENSE_NOT_FOUND, attempt)
    ELSE LET response == script[attempt + 1] IN
         IF response.status = 200
         THEN IF response.license = "obj"
              THEN Return(Get(response.spdx, LICENSE_NOT_FOUND), attempt + 1)
              ELSE IF response.license = "null"
              THEN Return(LICENSE_NOT_FOUND, attempt + 1)
              ELSE license_loop(script, attempt + 1)
         ELSE IF response.status = 401
         THEN time_sleep(attempt + 1)
         ELSE Return(LICENSE_NOT_FOUND, attempt + 1)

\* the body of get_license_info for a repository whose endpoint answers
\* the requests with script[1], script[2], ...
get_license_info_body(script) == license_loop(script, 0)

\* functools.lru_cache(maxsize=None): a hit returns the stored value and
\* sends nothing; a miss runs the body and stores what it returns (an
\* exception stores nothing)
\* (a cache that stores nothing)
lru_store_nothing(c, key, out) == c

lru_store(c, key, out) ==
    IF out.kind = "return" THEN (key :> out.value) @@ c ELSE c

get_license_info(c, repo_name, script) ==
    IF repo_name \in DOMAIN c
    THEN [out |-> Return(c[repo_name], 0), cache |-> c]
    ELSE LET out == get_license_info_body(script) IN
         [out |-> out, cache |-> lru_store(c, repo_name, out)]

\* the empty cache of a new process
EmptyCache == [k \in {} |-> None]

(***************************************************************************)
(* json.load / json.dumps(entry, indent=2) and the rewrite of '": '        *)
(* One member of a JSON object is the text  "key": value  or, as the       *)
(* record files come,  "key" : value.                                      *)
(***************************************************************************)
\* the body of a JSON string literal
RECURSIVE json_escape(_)
json_escape(v) ==
    IF v = <<>> THEN <<>>
    ELSE IF Head(v) \in {Q, BS} THEN <<BS, Head(v)>> \o json_escape(Tail(v))
    ELSE <<Head(v)>> \o json_escape(Tail(v))

\* json.dumps of a string or None
json_dumps_value(v) == IF v = None THEN <<"null">> ELSE <<Q>> \o json_escape(v) \o <<Q>>

\* json.dumps of one member
json_dumps_member(key, v) == <<Q, key, Q, ":", " ">> \o json_dumps_value(v)

\* the member as the benchmark's files hold it before any script ran
jackson_member(key, v) == <<Q, key, Q, " ", ":", " ">> \o json_dumps_value(v)

\* lines 84-85: file_text.replace('": ', '" : ')
format_text(text) == Replace(text, <<Q, ":", " ">>, <<Q, " ", ":", " ">>)

\* the text written for a member, Absent for a key the dict does not have
write_member(key, v) ==
    IF v = Absent THEN Absent ELSE format_text(json_dumps_member(key, v))

\* the JSON decoder on the body of a string literal, up to its closing quote
RECURSIVE json_scanstring(_)
json_scanstring(s) ==
    IF s = <<>> \/ Head(s) = Q THEN <<>>
    ELSE IF Head(s) = BS THEN <<s[2]>> \o json_scanstring(SubSeq(s, 3, Len(s)))
    ELSE <<Head(s)>> \o json_scanstring(Tail(s))

\* json.load of one member: the key, white space, the colon, white space,
\* the value
json_load_member(text) ==
    IF text = Absent THEN Absent
    ELSE LET afterKey == LStrip(SubSeq(text, 4, Len(text)), " ")
             value == LStrip(Tail(afterKey), " ")
         IN IF Head(value) = Q THEN json_scanstring(Tail(value)) ELSE None

\* The members of a record file the annotator reads or writes; hasUD says
\* whether the record has an "updatedDependency" object, whose members are
\* the last five (udLicenseInfo is its "licenseInfo").
Keys == {"url", "licenseInfo", "githubCompareLink", "dependencyGroupID",
         "dependencyArtifactID", "udLicenseInfo", "githubRepoSlug"}

json_load(f) ==
    [k \in Keys |-> json_load_member(f[k])] @@ [hasUD |-> f.hasUD]

json_dump(entry) ==
    [k \in Keys |-> write_member(k, entry[k])] @@ [hasUD |-> entry.hasUD]

\* a record file as found, from its values
jackson_file(entry) ==
    [k \in Keys |-> IF entry[k] = Absent THEN Absent ELSE jackson_member(k, entry[k])]
        @@ [hasUD |-> entry.hasUD]

(***************************************************************************)
(* The manual repository mapping and its lookup                            *)
(***************************************************************************)
MapEntry(g, a, link) == [groupID |-> g, artifactID |-> a, githubRepoLink |-> link]
NoEntry == MapEntry(None, None, None)
WILDCARD == <<"*">>

\* the condition of the generator expression of line 59 (line 116 of
\* fix-github-links.py)
Matches(item, group_id, artifact_id) ==
    /\ item.groupID = group_id
    /\ (item.artifactID = artifact_id \/ item.artifactID = WILDCARD)

\* (the last matching entry instead of the first)
RECURSIVE find_repo_info_last(_, _, _)
find_repo_info_last(m, group_id, artifact_id) ==
    IF m = <<>> THEN NoEntry
    ELSE IF Matches(m[Len(m)], group_id, artifact_id) THEN m[Len(m)]
    ELSE find_repo_info_last(SubSeq(m, 1, Len(m) - 1), group_id, artifact_id)

\* next((item for item in mapping if ...), None)
RECURSIVE find_repo_info(_, _, _)
find_repo_info(m, group_id, artifact_id) ==
    IF m = <<>> THEN NoEntry
    ELSE IF Matches(Head(m), group_id, artifact_id) THEN Head(m)
    ELSE find_repo_info(Tail(m), group_id, artifact_id)

(***************************************************************************)
(* add-licenses.py: update_json_file                                       *)
(* ans holds the endpoint's answers for the slugs asked so far; pick holds *)
(* its answers for a slug asked for the first time.                        *)
(***************************************************************************)
GITHUB == <<"https", ":", "/", "/", "github.com">>

ScriptOf(ans, pick, role, repo_name) ==
    IF repo_name \in DOMAIN ans THEN ans[repo_name] ELSE pick[role]

\* the endpoint's answers, with those of a lookup that sent requests
Asked(ans, repo_name, script, res) ==
    IF res.out.calls > 0 THEN (repo_name :> script) @@ ans ELSE ans

\* lines 50-61: the slug of the dependency's repository
dependency_repo(entry, m) ==
    LET link == IF entry.hasUD THEN Get(entry.githubCompareLink, <<>>) ELSE <<>>
        group_id == IF entry.hasUD THEN Get(entry.dependencyGroupID, None) ELSE None
        artifact_id == IF entry.hasUD THEN Get(entry.dependencyArtifactID, None) ELSE None
    IN  IF Truthy(link) /\ Contains(link, GITHUB)
        THEN [searched |-> FALSE, group_id |-> None, artifact_id |-> None,
              repo_info |-> NoEntry, name |-> get_repo_name_from_url(link)]
        ELSE LET repo_info == find_repo_info(m, group_id, artifact_id) IN
             [searched |-> TRUE, group_id |-> group_id, artifact_id |-> artifact_id,
              repo_info |-> repo_info,
              name |-> IF repo_info # NoEntry
                       THEN get_repo_name_from_url(repo_info.githubRepoLink)
                       ELSE None]

\* line 50: updatedDependency is entry's object, or a new dict that entry
\* does not hold; the assignments of lines 65-69 reach entry only in the
\* first case
set_dependency_fields(entry, license_info, slug) ==
    IF entry.hasUD
    THEN [entry EXCEPT !.udLicenseInfo = license_info, !.githubRepoSlug = slug]
    ELSE entry

\* lines 75-81: the top-level licenseInfo, from the state after line 72
top_level(f, entry, c, ans, pick, dep) ==
    LET main_pr_url == Get(entry.url, None)
        done(e, c2, a2) ==
            IF Truthy(e.licenseInfo)
            THEN [status |-> "ok", file |-> json_dump(e), cache |-> c2, answers |-> a2,
                  search |-> dep]
            ELSE [status |-> "AssertionError", file |-> f, cache |-> c2, answers |-> a2,
                  search |-> dep]
    IN  IF Truthy(main_pr_url)
        THEN LET repo_name == get_repo_name_from_url(main_pr_url)
                 script == ScriptOf(ans, pick, "url", repo_name)
                 res == get_license_info(c, repo_name, script)
                 a2 == Asked(ans, repo_name, script, res)
             IN  IF res.out.kind # "return"
                 THEN [status |-> res.out.kind, file |-> f, cache |-> res.cache,
                       answers |-> a2, search |-> dep]
                 ELSE done([entry EXCEPT !.licenseInfo = res.out.value], res.cache, a2)
        ELSE IF entry.licenseInfo = Absent
        THEN [status |-> "KeyError", file |-> f, cache |-> c, answers |-> ans,
              search |-> dep]
        ELSE IF ~Truthy(entry.licenseInfo)
        THEN done([entry EXCEPT !.licenseInfo = LICENSE_NOT_FOUND], c, ans)
        ELSE done(entry, c, ans)

\* the handler: what it leaves in the file, the cache and the endpoint's
\* record, and how it ended
update_json_file(f, m, c, ans, pick) ==
    LET entry == json_load(f)
        dep == dependency_repo(entry, m)
    IN  IF Truthy(dep.name)
        THEN LET script == ScriptOf(ans, pick, "dep", dep.name)
                 res == get_license_info(c, dep.name, script)
                 a2 == Asked(ans, dep.name, script, res)
             IN  IF res.out.kind # "return"
                 THEN [status |-> res.out.kind, file |-> f, cache |-> res.cache,
                       answers |-> a2, search |-> dep]
                 ELSE IF ~Truthy(res.out.value)
                 THEN [status |-> "AssertionError", file |-> f, cache |-> res.cache,
                       answers |-> a2, search |-> dep]
                 ELSE top_level(f, set_dependency_fields(entry, res.out.value, dep.name),
                                res.cache, a2, pick, dep)
        ELSE top_level(f, set_dependency_fields(entry, LICENSE_NOT_FOUND, REPO_NOT_FOUND),
                       c, ans, pick, dep)

(***************************************************************************)
(* fix-github-links.py: get_tags                                           *)
(* A tags server is the sequence of its answers to pages 1, 2, ...; each   *)
(* answer is an HTTP status and the tag names of the page.  A page past    *)
(* the last one is an empty page.                                          *)
(***************************************************************************)
Page(status, names) == [status |-> status, names |-> names]

\* requests.get of page `page`
ServerPage(server, page) ==
    IF page <= Len(server) THEN server[page] ELSE Page(200, <<>>)

\* (the page's names put before the names read so far)
extend_tags_front(tags, page_tags) == page_tags \o tags

\* line 78: tags.extend([tag['name'] for tag in page_tags])
extend_tags(tags, page_tags) == tags \o page_tags

\* the loop "while True" of lines 68-79; requests lists the pages asked for
RECURSIVE tags_loop(_, _, _, _)
tags_loop(server, page, tags, requests) ==
    LET response == ServerPage(server, page) IN
    IF response.status # 200
    THEN [tags |-> tags, requests |-> Append(requests, page)]
    ELSE IF response.names = <<>>
    THEN [tags |-> tags, requests |-> Append(requests, page)]
    ELSE tags_loop(server, page + 1, extend_tags(tags, response.names),
                   Append(requests, page))

get_tags(repo_api_url, server) ==
    IF Len(repo_api_url) < 1
    THEN [tags |-> <<>>, requests |-> <<>>]
    ELSE tags_loop(server, 1, <<>>, <<>>)

(***************************************************************************)
(* fix-github-links.py: the tag search and the compare URL                 *)
(***************************************************************************)
\* find_version_in_tags: the first tag that contains version, or None
RECURSIVE find_version_in_tags(_, _)
find_version_in_tags(tags, version) ==
    IF tags = <<>> THEN None
    ELSE IF Contains(Head(tags), version) THEN Head(tags)
    ELSE find_version_in_tags(Tail(tags), version)

\* line 85: f"{repo_url}/compare/{prev_version}...{new_version}"
formatted_repo_url(repo_url, prev_version, new_version) ==
    repo_url \o <<"/", "compare", "/">> \o prev_version \o <<"...">> \o new_version

\* (the URL returned without looking at the status)
construct_compare_url_unchecked(repo_url, prev_version, new_version, status) ==
    formatted_repo_url(repo_url, prev_version, new_version)

\* construct_compare_url: the URL when its GET is answered `status` = 200,
\* None (the code's False) otherwise
construct_compare_url(repo_url, prev_version, new_version, status) ==
    IF status = 200
    THEN formatted_repo_url(repo_url, prev_version, new_version)
    ELSE None

COULD_NOT_BE_FOUND == <<"A GitHub repository could not be found for the updated dependency.">>
NOT_IN_MAPPING == <<"Repository information not found in mapping.">>

\* line 122
relevant_tags_not_found_message(repo_link) ==
    <<"Relevant tags were not found in the GitHub repository", " ">>
        \o Replace(repo_link, GITHUB \o <<"/">>, <<>>)
        \o <<" ", "for the updated dependency.">>

\* line 119
repo_api_url_of(repo_link) ==
    Replace(repo_link, <<"github.com">>, <<"api.github.com", "/", "repos">>)

(***************************************************************************)
(* fix-github-links.py: a record file, update_json_file and the script     *)
(***************************************************************************)
FixKeys == {"githubCompareLink", "dependencyGroupID", "dependencyArtifactID",
            "previousVersion", "newVersion"}

fix_load(f) == [k \in FixKeys |-> json_load_member(f[k])]
fix_dump(entry) == [k \in FixKeys |-> write_member(k, entry[k])]
fix_jackson_file(entry) == [k \in FixKeys |-> jackson_member(k, entry[k])]

\* lines 101-142: the file the handler leaves, and the compare URLs it sent
\* a GET for, each with the status that came back
fix_update_json_file(f, m, server, status) ==
    LET entry == fix_load(f)
        repo_info == find_repo_info(m, entry.dependencyGroupID, entry.dependencyArtifactID)
    IN  IF repo_info # NoEntry
        THEN LET link == repo_info.githubRepoLink
                 tags == get_tags(repo_api_url_of(link), server).tags
                 prev_tag == find_version_in_tags(tags, entry.previousVersion)
                 new_tag == find_version_in_tags(tags, entry.newVersion)
             IN  IF Truthy(prev_tag) /\ Truthy(new_tag)
                 THEN LET compare_url == construct_compare_url(link, prev_tag, new_tag, status)
                          gets == <<[url |-> formatted_repo_url(link, prev_tag, new_tag),
                                     status |-> status]>>
                      IN  IF Truthy(compare_url)
                          THEN [file |-> fix_dump([entry EXCEPT !.githubCompareLink = compare_url]),
                                gets |-> gets]
                          ELSE [file |-> fix_dump([entry EXCEPT !.githubCompareLink =
                                            relevant_tags_not_found_message(link)]),
                                gets |-> gets]
                 ELSE [file |-> fix_dump([entry EXCEPT !.githubCompareLink =
                                   relevant_tags_not_found_message(link)]),
                       gets |-> <<>>]
        ELSE \* line 137 changes entry only; updated stays False, nothing is written
             [file |-> f, gets |-> <<>>]

\* line 29: the records the script selects
original_search_condition(f) ==
    fix_load(f).githubCompareLink = COULD_NOT_BE_FOUND

\* lines 156-165: every file is loaded and written again (the result of the
\* str.replace of line 162 is dropped)
final_pass(f) == fix_dump(fix_load(f))

(***************************************************************************)
(* extract-errors.py: the loop body on one log                             *)
(***************************************************************************)
BUILD_FAILURE == "[INFO] BUILD FAILURE"
COMPILER_GOAL == "Failed to execute goal org.apache.maven.plugins:maven-compiler-plugin"
LOCK_GOAL == "Failed to execute goal se.vandmo:dependency-lock-maven-plugin"
ENFORCER_FAILED == "Some Enforcer rules have failed"
ENFORCER_RULES == "org.apache.maven.enforcer.rules"
REQUIRES_JENKINS == "requires Jenkins"

\* lines 49-56: the log is skipped for its license
skipped_for_license(license_info) ==
    license_info \in {<<"NOASSERTION">>, <<"No license found">>}

\* lines 62-69: the stripped lines from the first BUILD FAILURE line on
RECURSIVE error_lines_of(_, _)
error_lines_of(log_content, recording) ==
    IF log_content = <<>> THEN <<>>
    ELSE LET line == Head(log_content)
             rec == recording \/ Contains(line, <<BUILD_FAILURE>>)
         IN  IF rec
             THEN <<Strip(line, " ")>> \o error_lines_of(Tail(log_content), rec)
             ELSE error_lines_of(Tail(log_content), rec)

\* line 72
error_text_of(error_lines) == Join(error_lines, "\n")

\* line 83: the condition of  elif "requires Jenkins":  is the string
\* literal itself, which is true
requires_jenkins_branch(error_text) == TRUE

\* lines 75-86: the pre-label, or None when the loop continues
pre_label_of(error_text) ==
    IF Contains(error_text, <<COMPILER_GOAL>>) THEN <<"DEPENDENCY_BREAKING_API_CHANGE">>
    ELSE IF Contains(error_text, <<LOCK_GOAL>>) THEN <<"DEPENDENCY_VERSION_MISMATCH">>
    ELSE IF Contains(error_text, <<ENFORCER_FAILED>>) THEN <<"DEPENDENCY_VERSION_MISMATCH">>
    ELSE IF Contains(error_text, <<ENFORCER_RULES>>) THEN <<"DEPENDENCY_VERSION_MISMATCH">>
    ELSE IF requires_jenkins_branch(error_text) THEN None
    ELSE <<"OTHER">>

\* lines 44-105: the records the log adds to the dataset
records_of_log(log_content, license_info) ==
    IF skipped_for_license(license_info) THEN <<>>
    ELSE LET error_lines == error_lines_of(log_content, FALSE) IN
         IF error_lines = <<>> THEN <<>>
         ELSE LET error_text == error_text_of(error_lines)
                  pre_label == pre_label_of(error_text)
              IN  IF pre_label = None THEN <<>>
                  ELSE <<[text |-> error_text, label |-> pre_label]>>

(***************************************************************************)
(* Bounds and input sets                                                   *)
(***************************************************************************)
\* longest URL path tried on the slug resolver
MaxPathLen == 4
\* lookups of one slug in one run
MaxLookups == 2
\* entries of the mapping table
MaxMapLen == 2
\* invocations of add-licenses.py on the same file
MaxRuns == 2
\* pages a tags server holds
MaxPages == 3
\* lines of a build log
MaxLogLen == 3

\* the sequences over S of length at most n
RECURSIVE SeqsUpTo(_, _)
SeqsUpTo(S, n) ==
    IF n = 0 THEN {<<>>}
    ELSE LET shorter == SeqsUpTo(S, n - 1) IN
         shorter \cup {<<x>> \o t : x \in S, t \in {u \in shorter : Len(u) = n - 1}}

(***************************************************************************)
(* SpecSlug: get_repo_name_from_url applied to one URL                     *)
(***************************************************************************)
SlugUrls ==
    {pre \o path \o suf :
        pre \in {<<>>, GITHUB},
        path \in SeqsUpTo({"/", "a", "b"}, MaxPathLen),
        suf \in {<<>>, <<"?", "a", "/", "b">>, <<"#", "b">>}}

IdleSlug == sUrl = <<>> /\ sOut = None /\ sPc = "idle"

SlugInit == sUrl \in SlugUrls /\ sOut = None /\ sPc = "call"

ResolveSlug ==
    /\ sPc = "call"
    /\ sOut' = get_repo_name_from_url(sUrl)
    /\ sPc' = "done"
    /\ UNCHANGED sUrl

(***************************************************************************)
(* SpecLic: one run of a process that looks licenses up                    *)
(***************************************************************************)
LicSlugs == {<<"o", "/", "r">>, <<"d", "/", "e">>}
Answers == {A401, A404, ANoKey, ANull, ANoId, ANullId, AEmptyId, AMit, AApache}
Scripts == [1..MAX_RETRIES -> Answers]

NoLookup == [slug |-> None, kind |-> "none", value |-> None, calls |-> 0, seen |-> <<>>]

IdleLic ==
    /\ results = <<>>
    /\ netCalls = <<>>
    /\ last = NoLookup
    /\ lStatus = "idle"

LicInit ==
    /\ cache = EmptyCache
    /\ results = [s \in LicSlugs |-> <<>>]
    /\ netCalls = [s \in LicSlugs |-> 0]
    /\ last = NoLookup
    /\ lStatus = "running"

\* a caller looks repo_name up; an exception ends the process
Lookup(repo_name, script) ==
    /\ lStatus = "running"
    /\ Len(results[repo_name]) < MaxLookups
    /\ LET r == get_license_info(cache, repo_name, script) IN
       /\ cache' = r.cache
       /\ netCalls' = [netCalls EXCEPT ![repo_name] = @ + r.out.calls]
       /\ results' = IF r.out.kind = "return"
                     THEN [results EXCEPT ![repo_name] =
                              Append(@, [value |-> r.out.value, calls |-> r.out.calls])]
                     ELSE results
       /\ last' = [slug |-> repo_name, kind |-> r.out.kind, value |-> r.out.value,
                   calls |-> r.out.calls,
                   seen |-> [i \in 1..r.out.calls |-> script[i].status]]
       /\ lStatus' = IF r.out.kind = "return" THEN "running" ELSE r.out.kind

LookupAny == \E repo_name \in LicSlugs, script \in Scripts : Lookup(repo_name, script)

(***************************************************************************)
(* SpecAnn: add-licenses.py run, and run again, on a directory that holds  *)
(* one record file                                                         *)
(***************************************************************************)
Urls == {Absent,
         GITHUB \o <<"/", "o", "/", "r", "/", "pull", "/", "80">>,
         GITHUB \o <<"/", "o">>}
TopLicenses == {Absent, <<>>, <<"MIT">>}
Links == {Absent, COULD_NOT_BE_FOUND,
          GITHUB \o <<"/", "d", "/", "e", "/", "compare", "/", "v1...v2">>}
Groups == {<<"g">>, <<":", " ", "g">>}
Artifacts == {<<"a">>, <<"b">>}

Entry(url, lic, hasUD, link, g, a) ==
    [url |-> url, licenseInfo |-> lic, hasUD |-> hasUD, githubCompareLink |-> link,
     dependencyGroupID |-> g, dependencyArtifactID |-> a,
     udLicenseInfo |-> Absent, githubRepoSlug |-> Absent]

Entries ==
    {Entry(u, l, TRUE, k, g, a) :
        u \in Urls, l \in TopLicenses, k \in Links, g \in Groups, a \in Artifacts}
    \cup {Entry(u, l, FALSE, Absent, Absent, Absent) : u \in Urls, l \in TopLicenses}

MapEntries ==
    {MapEntry(<<"g">>, <<"a">>, GITHUB \o <<"/", "m", "/", "one">>),
     MapEntry(<<"g">>, WILDCARD, GITHUB \o <<"/", "m", "/", "two", "/">>),
     MapEntry(<<":", " ", "g">>, <<"a">>, GITHUB \o <<"/", "m", "/", "one">>)}

AnnScripts ==
    {[i \in 1..MAX_RETRIES |-> AMit],
     [i \in 1..MAX_RETRIES |-> A404],
     [i \in 1..MAX_RETRIES |-> A401],
     [i \in 1..MAX_RETRIES |-> AEmptyId],
     [i \in 1..MAX_RETRIES |-> IF i = 1 THEN ANoKey ELSE AApache]}

NoSearch ==
    [searched |-> FALSE, group_id |-> None, artifact_id |-> None,
     repo_info |-> NoEntry, name |-> None]

IdleAnn ==
    /\ file = <<>> /\ file0 = <<>> /\ written = <<>> /\ mapping = <<>>
    /\ answers = EmptyCache /\ runNo = 0 /\ aStatus = "idle" /\ search = NoSearch

\* the ordered tables of at most MaxMapLen different entries
MappingTables ==
    {m \in SeqsUpTo(MapEntries, MaxMapLen) :
        \A i, j \in 1..Len(m) : i # j => m[i] # m[j]}

\* The answers the endpoint may give in a run: a script for each slug the
\* handler can ask about and that the endpoint has not answered before.
NewAnswers(f, m, ans) ==
    LET entry == json_load(f)
        dep == dependency_repo(entry, m).name
        main_pr_url == Get(entry.url, None)
        open(role) ==
            IF role = "dep"
            THEN Truthy(dep) /\ dep \notin DOMAIN ans
            ELSE /\ Truthy(main_pr_url)
                 /\ get_repo_name_from_url(main_pr_url) \notin DOMAIN ans \cup {dep}
    IN  {pick \in [{"dep", "url"} -> AnnScripts] :
            \A role \in {"dep", "url"} : open(role) \/ pick[role] = [i \in 1..MAX_RETRIES |-> A404]}

AnnInit ==
    /\ mapping \in MappingTables
    /\ file0 \in {jackson_file(e) : e \in Entries}
    /\ file = file0
    /\ written = <<>>
    /\ answers = EmptyCache
    /\ runNo = 0
    /\ aStatus = "ready"
    /\ search = NoSearch
    /\ cache = EmptyCache

\* lines 87-97: a new process (an empty cache) annotates the file; an
\* exception ends it and the file stays as it was
MainRun ==
    /\ aStatus \in {"ready", "ok"}
    /\ runNo < MaxRuns
    /\ \E pick \in NewAnswers(file, mapping, answers) :
          LET r == update_json_file(file, mapping, EmptyCache, answers, pick) IN
          /\ file' = r.file
          /\ cache' = r.cache
          /\ answers' = r.answers
          /\ aStatus' = r.status
          /\ search' = r.search
          /\ written' = IF r.status = "ok" THEN Append(written, r.file) ELSE written
    /\ runNo' = runNo + 1
    /\ UNCHANGED <<file0, mapping>>

(***************************************************************************)
(* SpecTags: get_tags on one repository                                    *)
(***************************************************************************)
TagV10 == <<"v", "1.0">>
TagV11 == <<"v", "1.1">>
TagV20 == <<"release-", "2.0">>

PageAnswers ==
    {Page(200, <<>>), Page(200, <<TagV10>>), Page(200, <<TagV11, TagV20>>), Page(404, <<>>)}
TagServers == SeqsUpTo(PageAnswers, MaxPages)
ApiUrl == <<"https", ":", "/", "/", "api.github.com", "/", "repos", "/", "m", "/", "one">>

NoTags == [tags |-> <<>>, requests |-> <<>>]

IdleTags == tUrl = <<>> /\ tServer = <<>> /\ tOut = NoTags /\ tPc = "idle"

TagsInit ==
    /\ tUrl \in {<<>>, ApiUrl}
    /\ tServer \in TagServers
    /\ tOut = NoTags
    /\ tPc = "call"

ListTags ==
    /\ tPc = "call"
    /\ tOut' = get_tags(tUrl, tServer)
    /\ tPc' = "done"
    /\ UNCHANGED <<tUrl, tServer>>

(***************************************************************************)
(* SpecFix: fix-github-links.py on a benchmark directory that holds one    *)
(* record file                                                             *)
(***************************************************************************)
FixEntry(link, g, a, prev, new) ==
    [githubCompareLink |-> link, dependencyGroupID |-> g, dependencyArtifactID |-> a,
     previousVersion |-> prev, newVersion |-> new]

FixEntries ==
    {FixEntry(k, <<"g">>, a, prev, <<"2.0">>) :
        k \in {COULD_NOT_BE_FOUND,
               GITHUB \o <<"/", "d", "/", "e", "/", "compare", "/", "v1...v2">>,
               relevant_tags_not_found_message(GITHUB \o <<"/", "d", "/", "e">>)},
        a \in Artifacts,
        prev \in {<<"1.0">>, <<"9.9">>}}

FixTables ==
    {m \in SeqsUpTo(MapEntries \cup {MapEntry(<<"g">>, <<"b">>, <<>>)}, MaxMapLen) :
        \A i, j \in 1..Len(m) : i # j => m[i] # m[j]}

FixServers ==
    {<<>>,
     <<Page(200, <<TagV10, TagV20>>)>>,
     <<Page(200, <<TagV10>>), Page(200, <<TagV11, TagV20>>)>>,
     <<Page(200, <<TagV10>>), Page(404, <<>>), Page(200, <<TagV11, TagV20>>)>>}

IdleFix ==
    /\ xFile = <<>> /\ xFile0 = <<>> /\ xMapping = <<>> /\ xServer = <<>>
    /\ xGets = <<>> /\ xPc = "idle"

FixInit ==
    /\ xFile0 \in {fix_jackson_file(e) : e \in FixEntries}
    /\ xFile = xFile0
    /\ xMapping \in FixTables
    /\ xServer \in FixServers
    /\ xGets = <<>>
    /\ xPc = "start"

\* lines 144-152: process_benchmark_directory on the selected records
ProcessDirectory ==
    /\ xPc = "start"
    /\ IF original_search_condition(xFile)
       THEN \E status \in {200, 404} :
               LET r == fix_update_json_file(xFile, xMapping, xServer, status) IN
               /\ xFile' = r.file
               /\ xGets' = r.gets
       ELSE UNCHANGED <<xFile, xGets>>
    /\ xPc' = "processed"
    /\ UNCHANGED <<xFile0, xMapping, xServer>>

\* lines 156-165
FinalPass ==
    /\ xPc = "processed"
    /\ xFile' = final_pass(xFile)
    /\ xPc' = "done"
    /\ UNCHANGED <<xFile0, xMapping, xServer, xGets>>

(***************************************************************************)
(* SpecLog: extract-errors.py on one log                                   *)
(***************************************************************************)
LogLines ==
    {<<"[INFO] Building">>,
     <<BUILD_FAILURE>>,
     <<" ", "[ERROR] ", COMPILER_GOAL, " ">>,
     <<"[ERROR] ", LOCK_GOAL>>,
     <<"[ERROR] ", ENFORCER_FAILED>>,
     <<"[WARNING] Rule 0: ", ENFORCER_RULES, ".BanDuplicateClasses failed">>,
     <<"[ERROR] plugin ", REQUIRES_JENKINS, " 2.0">>,
     <<"[ERROR] There are test failures.">>}

\* the licenseInfo of the log's commit in merged_data; Absent: not there
LogLicenses == {Absent, <<"MIT">>, <<"NOASSERTION">>, <<"No license found">>}

IdleLog == gLog = <<>> /\ gLicense = Absent /\ gData = <<>> /\ gPc = "idle"

LogInit ==
    /\ gLog \in SeqsUpTo(LogLines, MaxLogLen)
    /\ gLicense \in LogLicenses
    /\ gData = <<>>
    /\ gPc = "read"

ProcessLog ==
    /\ gPc = "read"
    /\ gData' = records_of_log(gLog, gLicense)
    /\ gPc' = "done"
    /\ UNCHANGED <<gLog, gLicense>>

(***************************************************************************)
(* Specifications                                                          *)
(***************************************************************************)
\* what each script leaves alone: the state of the other scripts
slugOnly == UNCHANGED <<cache, licVars, annVars, tagVars, fixVars, logVars>>
licOnly == UNCHANGED <<slugVars, annVars, tagVars, fixVars, logVars>>
annOnly == UNCHANGED <<slugVars, licVars, tagVars, fixVars, logVars>>
tagsOnly == UNCHANGED <<slugVars, cache, licVars, annVars, fixVars, logVars>>
fixOnly == UNCHANGED <<slugVars, cache, licVars, annVars, tagVars, logVars>>
logOnly == UNCHANGED <<slugVars, cache, licVars, annVars, tagVars, fixVars>>

NextSlug == ResolveSlug /\ slugOnly
InitSlug ==
    SlugInit /\ cache = EmptyCache /\ IdleLic /\ IdleAnn /\ IdleTags /\ IdleFix /\ IdleLog
SpecSlug == InitSlug /\ [][NextSlug]_vars

NextLic == LookupAny /\ licOnly
InitLic ==
    LicInit /\ IdleSlug /\ IdleAnn /\ IdleTags /\ IdleFix /\ IdleLog
SpecLic == InitLic /\ [][NextLic]_vars

NextAnn == MainRun /\ annOnly
InitAnn ==
    AnnInit /\ IdleSlug /\ IdleLic /\ IdleTags /\ IdleFix /\ IdleLog
SpecAnn == InitAnn /\ [][NextAnn]_vars

NextTags == ListTags /\ tagsOnly
InitTags ==
    TagsInit /\ cache = EmptyCache /\ IdleSlug /\ IdleLic /\ IdleAnn /\ IdleFix /\ IdleLog
SpecTags == InitTags /\ [][NextTags]_vars

NextFix ==
    \/ ProcessDirectory /\ fixOnly
    \/ FinalPass /\ fixOnly
InitFix ==
    FixInit /\ cache = EmptyCache /\ IdleSlug /\ IdleLic /\ IdleAnn /\ IdleTags /\ IdleLog
SpecFix == InitFix /\ [][NextFix]_vars

NextLog == ProcessLog /\ logOnly
InitLog ==
    LogInit /\ cache = EmptyCache /\ IdleSlug /\ IdleLic /\ IdleAnn /\ IdleTags /\ IdleFix
SpecLog == InitLog /\ [][NextLog]_vars

(***************************************************************************)
(* Claims                                                                  *)
(***************************************************************************)
\* the non-empty segments of a URL path
NonEmptySegments(path) == SelectSeq(Split(path, "/"), LAMBDA seg : seg # <<>>)

\* C6: the slug of a URL whose path has at least two non-empty segments is
\* the first non-empty segment, "/", the second non-empty segment; the slug
\* of a URL with fewer is None (so trailing slashes change nothing).
C6_SlugIsFirstTwoSegments ==
    sPc = "done" =>
        LET segs == NonEmptySegments(urlparse_path(sUrl)) IN
        IF Len(segs) >= 2
        THEN sOut = segs[1] \o <<"/">> \o segs[2]
        ELSE sOut = None

\* C3 as stated: two lookups of one slug send at most one request in
\* total, and the second returns what the first returned.
C3_AtMostOneCall ==
    \A s \in DOMAIN results :
        Len(results[s]) >= 2 =>
            /\ netCalls[s] <= 1
            /\ results[s][2].value = results[s][1].value

\* C3 amended: a lookup sends at most MAX_RETRIES requests; once a lookup
\* of a slug has returned, every later lookup of that slug in the run sends
\* no request and returns the same value.
C3_SecondLookupFromCache ==
    \A s \in DOMAIN results :
        /\ netCalls[s] <= MAX_RETRIES
        /\ \A i \in 1..Len(results[s]) :
              /\ results[s][i].calls <= MAX_RETRIES
              /\ i >= 2 => /\ results[s][i].calls = 0
                           /\ results[s][i].value = results[s][1].value

\* a slug was looked up twice and the first lookup needed three requests
C3_Witness ==
    \E s \in DOMAIN results :
        Len(results[s]) >= 2 /\ results[s][1].calls = MAX_RETRIES /\ netCalls[s] = MAX_RETRIES

\* C4: a lookup sends at most MAX_RETRIES requests, and a lookup all of
\* whose requests were answered 401 returns LICENSE_NOT_FOUND normally.
C4_Retry401Degrades ==
    last.kind # "none" =>
        /\ last.calls <= MAX_RETRIES
        /\ (last.calls >= 1 /\ \A i \in 1..last.calls : last.seen[i] = 401) =>
              (last.kind = "return" /\ last.value = LICENSE_NOT_FOUND)

\* a member that is present and a non-empty string
NonEmptyString(v) == v \notin {Absent, None, <<>>}

\* C1: a record file the annotator has rewritten holds non-empty strings
\* in updatedDependency.licenseInfo, updatedDependency.githubRepoSlug and
\* the top-level licenseInfo.
C1_FieldsPresentAfterRewrite ==
    (runNo >= 1 /\ aStatus = "ok") =>
        LET entry == json_load(file) IN
        /\ entry.hasUD
        /\ NonEmptyString(entry.udLicenseInfo)
        /\ NonEmptyString(entry.githubRepoSlug)
        /\ NonEmptyString(entry.licenseInfo)

\* the record has no githubCompareLink and its coordinates match no entry
NoLinkNoMatch(entry, m) ==
    /\ entry.githubCompareLink = Absent
    /\ \A i \in 1..Len(m) :
          ~Matches(m[i], Get(entry.dependencyGroupID, None),
                   Get(entry.dependencyArtifactID, None))

\* C2: annotating a record with no githubCompareLink and no mapping match
\* completes, and writes the two not-found sentinels and a non-empty
\* top-level licenseInfo.
C2_NoMatchDegrades ==
    (runNo = 1 /\ NoLinkNoMatch(json_load(file0), mapping)) =>
        /\ aStatus = "ok"
        /\ LET entry == json_load(file) IN
           /\ entry.udLicenseInfo = LICENSE_NOT_FOUND
           /\ entry.githubRepoSlug = REPO_NOT_FOUND
           /\ NonEmptyString(entry.licenseInfo)

\* C7: a second run on the file a first run wrote completes and writes the
\* same file.
C7_SecondRunWritesSameFile ==
    runNo = 2 => (aStatus = "ok" /\ file = written[1])

\* the table's entries for exactly (g, a), and for (g, "*")
ExactEntries(m, g, a) ==
    {i \in 1..Len(m) : m[i].groupID = g /\ m[i].artifactID = a}
WildcardEntries(m, g) ==
    {i \in 1..Len(m) : m[i].groupID = g /\ m[i].artifactID = WILDCARD}

\* C5 as stated: when the table has an entry for exactly (g, a), that is
\* the entry used, and a wildcard entry is used only when there is none,
\* whatever the order of the table.
C5_ExactMatchPreferred ==
    (runNo >= 1 /\ search.searched) =>
        LET exact == ExactEntries(mapping, search.group_id, search.artifact_id) IN
        IF exact # {}
        THEN \E i \in exact : search.repo_info = mapping[i]
        ELSE \/ search.repo_info = NoEntry
             \/ search.repo_info.artifactID = WILDCARD

\* C5 amended: the entry used is the first entry, in table order, whose
\* groupID is the record's and whose artifactID is the record's or "*"; no
\* entry is used when there is none.
C5_FirstMatchWins ==
    (runNo >= 1 /\ search.searched) =>
        LET hits == ExactEntries(mapping, search.group_id, search.artifact_id)
                        \cup WildcardEntries(mapping, search.group_id) IN
        IF hits = {}
        THEN search.repo_info = NoEntry
        ELSE \E i \in hits : /\ \A j \in hits : i <= j
                              /\ search.repo_info = mapping[i]

\* the table was searched for a record that an exact entry and a wildcard
\* entry with another link both match
C5_Witness ==
    /\ runNo >= 1 /\ search.searched
    /\ \E i \in ExactEntries(mapping, search.group_id, search.artifact_id),
          j \in WildcardEntries(mapping, search.group_id) :
          mapping[i].githubRepoLink # mapping[j].githubRepoLink

\* the first page at which the listing stops: not a 200, or an empty page
Stops(server, p) == ServerPage(server, p).status # 200 \/ ServerPage(server, p).names = <<>>
StopPage(server) ==
    CHOOSE p \in 1..(Len(server) + 1) : Stops(server, p) /\ \A q \in 1..(p - 1) : ~Stops(server, q)

\* the tag names of pages 1..n, in page order
RECURSIVE PagesConcat(_, _)
PagesConcat(server, n) ==
    IF n = 0 THEN <<>> ELSE PagesConcat(server, n - 1) \o ServerPage(server, n).names

\* C9: for a non-empty URL get_tags asks for pages 1, 2, ... up to the
\* first page that is empty or not a 200 and for no page after it, and
\* returns the names of the pages before it in page order; for an empty
\* URL it asks for nothing and returns no tag.
C9_TagsOfPagesBeforeStop ==
    tPc = "done" =>
        IF tUrl = <<>>
        THEN tOut.tags = <<>> /\ tOut.requests = <<>>
        ELSE /\ tOut.requests = [i \in 1..StopPage(tServer) |-> i]
             /\ tOut.tags = PagesConcat(tServer, StopPage(tServer) - 1)

\* a listing that read tags, stopped, and left a later page of tags unasked
C9_Witness ==
    /\ tPc = "done" /\ tUrl # <<>>
    /\ Len(tOut.tags) >= 1
    /\ Len(tOut.requests) < Len(tServer)
    /\ tServer[Len(tServer)].names # <<>>

\* the link the record file holds
StoredLink == fix_load(xFile).githubCompareLink
\* the compare URLs whose verification GET came back 200
VerifiedUrls == {xGets[i].url : i \in {j \in 1..Len(xGets) : xGets[j].status = 200}}
\* the table's entries that match the record
FixHits ==
    LET entry == fix_load(xFile0) IN
    {i \in 1..Len(xMapping) :
        Matches(xMapping[i], entry.dependencyGroupID, entry.dependencyArtifactID)}

\* C8 as stated: after the workflow a selected record's file holds a
\* compare URL whose GET returned 200 or a "Relevant tags were not found in
\* the GitHub repository X" sentinel.
C8_UrlOrSentinel ==
    (xPc = "done" /\ original_search_condition(xFile0)) =>
        \/ StoredLink \in VerifiedUrls
        \/ \E i \in 1..Len(xMapping) :
              StoredLink = relevant_tags_not_found_message(xMapping[i].githubRepoLink)

\* C8 amended: for a selected record that a table entry matches, the file
\* holds, after the workflow, the compare URL of the entry's repository
\* when tags for both versions were listed and the URL's GET returned 200,
\* and the "Relevant tags were not found" sentinel of that repository in
\* every other case; a selected record that no entry matches keeps the
\* "could not be found" sentinel.
C8_MatchedUrlOrSentinel ==
    (xPc = "done" /\ original_search_condition(xFile0)) =>
        IF FixHits = {}
        THEN StoredLink = COULD_NOT_BE_FOUND
        ELSE LET first == CHOOSE i \in FixHits : \A j \in FixHits : i <= j
                 link == xMapping[first].githubRepoLink
                 entry == fix_load(xFile0)
                 tags == IF link = <<>> THEN <<>>
                         ELSE PagesConcat(xServer, StopPage(xServer) - 1)
                 listed(version) == \E i \in 1..Len(tags) : Contains(tags[i], version)
             IN  IF /\ listed(entry.previousVersion)
                    /\ listed(entry.newVersion)
                    /\ VerifiedUrls # {}
                 THEN /\ StoredLink \in VerifiedUrls
                      /\ StartsWith(StoredLink, link \o <<"/", "compare", "/">>)
                 ELSE StoredLink = relevant_tags_not_found_message(link)

\* a selected record ended with a verified compare URL in its file
C8_Witness ==
    /\ xPc = "done" /\ original_search_condition(xFile0)
    /\ StoredLink \in VerifiedUrls

\* the lines of the log from the first BUILD FAILURE line on
FailureSection(log) ==
    LET marks == {i \in 1..Len(log) : Contains(log[i], <<BUILD_FAILURE>>)} IN
    IF marks = {} THEN <<>>
    ELSE SubSeq(log, CHOOSE i \in marks : \A j \in marks : i <= j, Len(log))

\* some line of the section holds the phrase
Mentions(section, phrase) == \E i \in 1..Len(section) : Contains(section[i], <<phrase>>)

\* C10: a log that is not skipped for its license and has a failure section
\* that does not mention "requires Jenkins" gives exactly one record, and
\* the record's pre-label is "OTHER" when the section mentions none of the
\* four heuristic phrases.
C10_OtherIsTheDefaultLabel ==
    LET section == FailureSection(gLog) IN
    (/\ gPc = "done"
     /\ ~skipped_for_license(gLicense)
     /\ section # <<>>
     /\ ~Mentions(section, REQUIRES_JENKINS)) =>
        /\ Len(gData) = 1
        /\ (\A phrase \in {COMPILER_GOAL, LOCK_GOAL, ENFORCER_FAILED, ENFORCER_RULES} :
                ~Mentions(section, phrase)) => gData[1].label = <<"OTHER">>

====
